---------------------------- MODULE Spec2Model ----------------------------
(***************************************************************************)
(* MemoryClient of sdk-deno-mem0 (client.ts, error.ts, types.ts) as a      *)
(* state machine: the client's private fields, the calls in progress with  *)
(* the HTTP requests each has issued, and the remote service's answers.    *)
(* JavaScript values are tagged records, strings are TLA+ strings, option  *)
(* bags are functions from the keys present to values.                     *)
(***************************************************************************)
EXTENDS Integers, Sequences, FiniteSets, TLC

VARIABLES
  ctor,      \* the ClientOptions handed to the constructor and its outcome
  client,    \* the private fields of the MemoryClient instance
  calls,     \* per caller: the public method running and what it has done
  served     \* memory ids some earlier get() has returned successfully

vars == <<ctor, client, calls, served>>

---------------------------------------------------------------------------
(* Bounds of the model *)

MaxCalls == 2        \* callers that may use the client at the same time
MaxEntities == 2     \* longest entity listing the service returns
MaxPage == 2         \* largest page / page_size index offered to getAll

---------------------------------------------------------------------------
(* JavaScript values *)

Undef == [t |-> "undefined"]
Null == [t |-> "null"]
Str(s) == [t |-> "string", s |-> s]
Num(n) == [t |-> "number", n |-> n]
Bool(b) == [t |-> "boolean", b |-> b]
JObj(o) == [t |-> "object", o |-> o]
JArr(a) == [t |-> "array", a |-> a]

EmptyBag == [k \in {} |-> Undef]

\* obj[key] : undefined when the key is not an own property
Get(bag, k) == IF k \in DOMAIN bag THEN bag[k] ELSE Undef

\* const { k1, k2, ...rest } = bag : the rest object
Rest(bag, ks) == [k \in (DOMAIN bag) \ ks |-> bag[k]]

\* ToBoolean
Truthy(v) ==
  CASE v.t = "undefined" -> FALSE
    [] v.t = "null" -> FALSE
    [] v.t = "string" -> v.s # ""
    [] v.t = "number" -> v.n # 0
    [] v.t = "boolean" -> v.b
    [] OTHER -> TRUE

\* typeof v
TypeOf(v) ==
  CASE v.t \in {"null", "object", "array"} -> "object"
    [] OTHER -> v.t

\* a ?? b
Coalesce(a, b) == IF a \in {Undef, Null} THEN b ELSE a

Digit(d) == SubSeq("0123456789", d + 1, d + 1)

RECURSIVE NatStr(_)
NatStr(n) == IF n < 10 THEN Digit(n) ELSE NatStr(n \div 10) \o Digit(n % 10)

RECURSIVE JoinComma(_)
\* String(v), `${v}`
JSString(v) ==
  CASE v.t = "undefined" -> "undefined"
    [] v.t = "null" -> "null"
    [] v.t = "string" -> v.s
    [] v.t = "number" -> IF v.n < 0 THEN "-" \o NatStr(-v.n) ELSE NatStr(v.n)
    [] v.t = "boolean" -> IF v.b THEN "true" ELSE "false"
    [] v.t = "array" -> JoinComma(v.a)
    [] OTHER -> "[object Object]"
JoinComma(a) ==
  IF a = <<>> THEN ""
  ELSE IF Len(a) = 1 THEN JSString(a[1])
  ELSE JSString(a[1]) \o "," \o JoinComma(Tail(a))

IsSpace(ch) == ch \in {" ", "\t", "\n"}

RECURSIVE TrimStart(_)
TrimStart(s) == IF s # "" /\ IsSpace(Head(s)) THEN TrimStart(Tail(s)) ELSE s

RECURSIVE TrimEnd(_)
TrimEnd(s) ==
  IF s # "" /\ IsSpace(SubSeq(s, Len(s), Len(s)))
  THEN TrimEnd(SubSeq(s, 1, Len(s) - 1))
  ELSE s

\* String.prototype.trim
Trim(s) == TrimEnd(TrimStart(s))

\* String.prototype.includes
Includes(s, t) ==
  \E i \in 1..(Len(s) - Len(t) + 1) : SubSeq(s, i, i + Len(t) - 1) = t

EndsWith(s, t) == Len(t) <= Len(s) /\ SubSeq(s, Len(s) - Len(t) + 1, Len(s)) = t


---------------------------------------------------------------------------
(* URLSearchParams and JSON.stringify *)

\* application/x-www-form-urlencoded serialisation of one character
EncodeChar(ch) ==
  CASE ch = " " -> "+"
    [] ch = "[" -> "%5B"
    [] ch = "]" -> "%5D"
    [] ch = "," -> "%2C"
    [] ch = "&" -> "%26"
    [] ch = "=" -> "%3D"
    [] OTHER -> ch

RECURSIVE Encode(_)
Encode(s) == IF s = "" THEN "" ELSE EncodeChar(Head(s)) \o Encode(Tail(s))

\* The order in which the keys of an object are enumerated.
KeyOrder ==
  << "query", "messages", "user_id", "agent_id", "limit", "filters", "version",
     "api_version", "page", "page_size", "org_name", "project_name",
     "org_id", "project_id" >>

RECURSIVE QueryFrom(_, _)
QueryFrom(params, i) ==
  IF i > Len(KeyOrder) THEN ""
  ELSE LET k == KeyOrder[i]
           rest == QueryFrom(params, i + 1)
       IN IF k \in DOMAIN params
          THEN Encode(k) \o "=" \o Encode(params[k])
               \o (IF rest = "" THEN "" ELSE "&" \o rest)
          ELSE rest

\* `${new URLSearchParams(params)}`
QueryString(params) == QueryFrom(params, 1)

\* JSON.stringify of an object: own properties whose value is undefined are left out
JSONStringify(bag) == [k \in {x \in DOMAIN bag : bag[x] # Undef} |-> bag[k]]

NoBody == [t |-> "nobody"]

---------------------------------------------------------------------------
(* error.ts *)

NoError == [name |-> "none"]

\* new APIError(status, message)
APIError(status, message) ==
  [ name |-> "APIError",
    status |-> status,
    message |-> "API request failed with status " \o NatStr(status) \o ": " \o message ]

\* new Error(message)
Error(message) == [name |-> "Error", message |-> message]

---------------------------------------------------------------------------
(* Construction *)

DefaultHost == "https://api.mem0.ai"
CustomHost == "https://custom.api.mem0.ai"

ApiKeys ==
  { Undef, Null, Str(""), Str(" "), Str(" \t "), Num(0), Num(7), Bool(TRUE),
    JObj(EmptyBag), Str(" k "), Str("m0-key") }

Ids == ("organizationId" :> Str("org_1")) @@ ("projectId" :> Str("proj_1"))
Names == ("organizationName" :> Str("acme")) @@ ("projectName" :> Str("demo"))

\* The ClientOptions offered to the constructor: every kind of apiKey (and none
\* at all), a custom host, and the scoping pairs whole, halved and combined.
ClientOptionsSet ==
  { ("apiKey" :> k) : k \in ApiKeys }
  \cup { EmptyBag, ("host" :> Str(CustomHost)) }
  \cup { ("apiKey" :> Str("m0-key")) @@ o :
           o \in { ("host" :> Str(CustomHost)), Ids, Names, Ids @@ Names,
                   ("organizationId" :> Str("org_1")),
                   ("projectId" :> Str("proj_1")) @@ Names,
                   ("organizationName" :> Str("acme")) @@ Ids,
                   ("organizationId" :> Str("")) @@ ("projectId" :> Str("proj_1")) } }

NoClient ==
  [ st |-> "none", apiKey |-> Undef, host |-> "", organizationName |-> Null,
    projectName |-> Null, organizationId |-> Null, projectId |-> Null,
    headers |-> EmptyBag, timeout |-> 0 ]

validateApiKey_NoTrim(apiKey) ==
  CASE ~Truthy(apiKey) -> Error("Mem0 API key is required")
    [] TypeOf(apiKey) # "string" -> Error("Mem0 API key must be a string")
    [] OTHER -> NoError

\* #validateApiKey : the error it throws, NoError when it returns
validateApiKey(apiKey) ==
  CASE ~Truthy(apiKey) -> Error("Mem0 API key is required")
    [] TypeOf(apiKey) # "string" -> Error("Mem0 API key must be a string")
    [] Trim(apiKey.s) = "" -> Error("Mem0 API key cannot be empty")
    [] OTHER -> NoError

NameWarning == "Warning: Both organizationName and projectName must be provided together."
IdWarning == "Warning: Both organizationId and projectId must be provided together."

\* #validateOrgProject : the warnings written to the console; it never throws
validateOrgProject(f) ==
  (IF (f.organizationName = Null) # (f.projectName = Null) THEN {NameWarning} ELSE {})
  \cup
  (IF (f.organizationId = Null) # (f.projectId = Null) THEN {IdWarning} ELSE {})

\* The assignments of the constructor, before validation.
Fields(options) ==
  [ st |-> "ok",
    apiKey |-> Get(options, "apiKey"),
    host |-> Coalesce(Get(options, "host"), Str(DefaultHost)).s,
    organizationName |-> Coalesce(Get(options, "organizationName"), Null),
    projectName |-> Coalesce(Get(options, "projectName"), Null),
    organizationId |-> Coalesce(Get(options, "organizationId"), Null),
    projectId |-> Coalesce(Get(options, "projectId"), Null),
    timeout |-> 60000,
    headers |-> ("Authorization" :> ("Token " \o JSString(Get(options, "apiKey"))))
                @@ ("Content-Type" :> "application/json") ]

\* new MemoryClient(options)
Construct ==
  /\ ctor.outcome = "pending"
  /\ LET f == Fields(ctor.options)
         e == validateApiKey(f.apiKey)
     IN IF e # NoError
        THEN /\ ctor' = [ctor EXCEPT !.outcome = "threw", !.error = e]
             /\ UNCHANGED client
        ELSE /\ ctor' = [ctor EXCEPT !.outcome = "ok",
                                     !.warnings = validateOrgProject(f)]
             /\ client' = f
  /\ UNCHANGED <<calls, served>>

IdleCall ==
  [ op |-> "idle", pc |-> "idle", args |-> EmptyBag, reqs |-> <<>>,
    toDelete |-> <<>>, queryParams |-> EmptyBag, applied |-> <<>>,
    result |-> Undef, error |-> NoError ]

Callers == 1..MaxCalls

Init ==
  /\ ctor \in [ options : ClientOptionsSet, outcome : {"pending"},
                error : {NoError}, warnings : {{}} ]
  /\ client = NoClient
  /\ calls = [c \in Callers |-> IdleCall]
  /\ served = {}

---------------------------------------------------------------------------
(* The request execution core: #fetchWithErrorHandling *)

NoParams == EmptyBag

NoResponse == [kind |-> "none"]

Request_BodyHeaders(method, url, path, params, frag, body) ==
  [ method |-> method, url |-> url, path |-> path, params |-> params,
    frag |-> frag, body |-> body,
    headers |-> IF body = [t |-> "nobody"]
                THEN ("Authorization" :> client.headers["Authorization"])
                ELSE client.headers,
    timeout |-> client.timeout,
    state |-> "inflight", response |-> [kind |-> "none"] ]

\* What fetch(url, {...options, signal, headers}) puts on the wire.  path, params
\* and frag record the pieces the url string was assembled from; state and
\* response record whether and how the transport has answered.
Request(method, url, path, params, frag, body) ==
  [ method |-> method, url |-> url, path |-> path, params |-> params,
    frag |-> frag, body |-> body,
    headers |-> client.headers, timeout |-> client.timeout,
    state |-> "inflight", response |-> NoResponse ]

Unparsable == [t |-> "unparsable"]

ErrorStatuses == {401, 500}
ErrorTexts == {"", "Rate limit exceeded"}
StatusTexts == {"", "Not Found"}

\* fetch rejects.  When the signal of AbortSignal.timeout fires, fetch rejects
\* with the signal's reason, a DOMException named "TimeoutError"; a runtime that
\* rejects with the generic abort error instead gives "AbortError".  A transport
\* failure rejects with a TypeError.
Rejections ==
  { [kind |-> "reject", name |-> "TimeoutError", message |-> "Signal timed out."],
    [kind |-> "reject", name |-> "AbortError", message |-> "The signal has been aborted"],
    [kind |-> "reject", name |-> "TypeError", message |-> "error sending request"] }

HttpErrors ==
  { [kind |-> "http", status |-> s, statusText |-> st, text |-> t, json |-> Unparsable] :
      s \in ErrorStatuses, st \in StatusTexts, t \in ErrorTexts }
  \ { [kind |-> "http", status |-> s, statusText |-> "", text |-> "Rate limit exceeded",
       json |-> Unparsable] : s \in ErrorStatuses }

Success(json) ==
  [kind |-> "http", status |-> 200, statusText |-> "OK", text |-> "", json |-> json]

Failures == Rejections \cup HttpErrors

\* response.ok
Ok(r) == r.status >= 200 /\ r.status <= 299

Threw(e) == [threw |-> TRUE, error |-> e, value |-> Undef]
Returned(v) == [threw |-> FALSE, error |-> NoError, value |-> v]

FetchResult_StatusLine(req, r) ==
  IF r.kind = "reject"
  THEN Threw([name |-> r.name, message |-> r.message])
  ELSE IF ~Ok(r)
  THEN Threw(APIError(r.status, r.statusText))
  ELSE IF r.json = Unparsable
  THEN Threw([name |-> "SyntaxError", message |-> "Unexpected token"])
  ELSE Returned(r.json)

\* What awaiting #fetchWithErrorHandling yields once the request is answered by r.
FetchResult(req, r) ==
  IF r.kind = "reject"
  THEN IF r.name = "AbortError"
       THEN Threw(Error("Request timeout after " \o NatStr(req.timeout)
                        \o "ms for " \o req.url))
       ELSE Threw([name |-> r.name, message |-> r.message])
  ELSE IF ~Ok(r)
  THEN Threw(APIError(r.status, IF r.text # "" THEN r.text ELSE r.statusText))
  ELSE IF r.json = Unparsable
  THEN Threw([name |-> "SyntaxError", message |-> "Unexpected token"])
  ELSE Returned(r.json)

\* A caller may invoke a method when the client exists and it has no call under way.
CanCall(c) == client.st = "ok" /\ calls[c].pc = "idle"

Begun(op, args) == [IdleCall EXCEPT !.op = op, !.args = args]

StartCall_FetchFirst(c, op, args, err, req) ==
  /\ CanCall(c)
  /\ calls' = [calls EXCEPT ![c] =
       IF err # NoError
       THEN [Begun(op, args) EXCEPT !.pc = "threw", !.error = err, !.reqs = <<req>>]
       ELSE [Begun(op, args) EXCEPT !.pc = "fetching", !.reqs = <<req>>]]
  /\ UNCHANGED <<ctor, client, served>>

\* The method runs up to its first await: it throws err, or issues req and waits.
StartCall(c, op, args, err, req) ==
  /\ CanCall(c)
  /\ calls' = [calls EXCEPT ![c] =
       IF err # NoError
       THEN [Begun(op, args) EXCEPT !.pc = "threw", !.error = err]
       ELSE [Begun(op, args) EXCEPT !.pc = "fetching", !.reqs = <<req>>]]
  /\ UNCHANGED <<ctor, client, served>>

Simple(method, path, body) ==
  Request(method, client.host \o path, path, NoParams, "", body)

\* the request the call is waiting for
Pending(call) == {i \in 1..Len(call.reqs) : call.reqs[i].state = "inflight"}

Answered(call, i, r) ==
  [call EXCEPT !.reqs[i].state = "settled", !.reqs[i].response = r]

\* The caller has taken the result or caught the error of its call.
Return(c) ==
  /\ calls[c].pc \in {"returned", "threw"}
  /\ calls' = [calls EXCEPT ![c] = IdleCall]
  /\ UNCHANGED <<ctor, client, served>>

Finish(call, res) ==
  IF res.threw THEN [call EXCEPT !.pc = "threw", !.error = res.error]
  ELSE [call EXCEPT !.pc = "returned", !.result = res.value]

---------------------------------------------------------------------------
(* #preparePayload, #prepareParams, #addOrgProjectToOptions *)

\* { messages, ...options }
preparePayload(messages, options) == options @@ ("messages" :> messages)

prepareParams_KeepNull(options) ==
  [ k \in {x \in DOMAIN options : options[x] # Undef} |-> JSString(options[k]) ]

\* #prepareParams(options)
prepareParams(options) ==
  [ k \in {x \in DOMAIN options : options[x] # Null /\ options[x] # Undef}
      |-> JSString(options[k]) ]

addOrgProjectToOptions_CallerWins(options) ==
  LET named ==
        IF client.organizationName # Null /\ client.projectName # Null
        THEN options @@ ("org_name" :> client.organizationName)
             @@ ("project_name" :> client.projectName)
        ELSE options
  IN IF client.organizationId # Null /\ client.projectId # Null
     THEN Rest(("org_id" :> client.organizationId)
               @@ ("project_id" :> client.projectId) @@ named,
               {"org_name", "project_name"})
     ELSE named

addOrgProjectToOptions_AsConstructed(options) ==
  LET named ==
        IF client.organizationName # Null /\ client.projectName # Null
        THEN ("org_name" :> client.organizationName)
             @@ ("project_name" :> client.projectName) @@ options
        ELSE options
      organizationId == Coalesce(Get(ctor.options, "organizationId"), Null)
      projectId == Coalesce(Get(ctor.options, "projectId"), Null)
  IN IF organizationId # Null /\ projectId # Null
     THEN Rest(("org_id" :> organizationId) @@ ("project_id" :> projectId) @@ named,
               {"org_name", "project_name"})
     ELSE named

addOrgProjectToOptions_KeepNames(options) ==
  LET named ==
        IF client.organizationName # Null /\ client.projectName # Null
        THEN ("org_name" :> client.organizationName)
             @@ ("project_name" :> client.projectName) @@ options
        ELSE options
  IN IF client.organizationId # Null /\ client.projectId # Null
     THEN ("org_id" :> client.organizationId)
          @@ ("project_id" :> client.projectId) @@ named
     ELSE named

\* #addOrgProjectToOptions(options)
addOrgProjectToOptions(options) ==
  LET named ==
        IF client.organizationName # Null /\ client.projectName # Null
        THEN ("org_name" :> client.organizationName)
             @@ ("project_name" :> client.projectName) @@ options
        ELSE options
  IN IF client.organizationId # Null /\ client.projectId # Null
     THEN Rest(("org_id" :> client.organizationId)
               @@ ("project_id" :> client.projectId) @@ named,
               {"org_name", "project_name"})
     ELSE named

---------------------------------------------------------------------------
(* Memory operations *)

\* add(messages, options)
addRequest(messages, options) ==
  LET merged == addOrgProjectToOptions(options)
      opts == IF Truthy(Get(merged, "api_version"))
              THEN ("version" :> Str(JSString(merged["api_version"]))) @@ merged
              ELSE merged
      payload == preparePayload(messages, opts)
  IN Simple("POST", "/v1/memories/", JSONStringify(payload))

add_SkipEmpty(c, messages, options) ==
  /\ CanCall(c)
  /\ calls' = [calls EXCEPT ![c] =
       LET call == Begun("add", ("messages" :> messages) @@ ("options" :> options))
       IN IF messages = JArr(<<>>)
          THEN [call EXCEPT !.pc = "returned", !.result = JArr(<<>>)]
          ELSE [call EXCEPT !.pc = "fetching",
                            !.reqs = <<addRequest(messages, options)>>]]
  /\ UNCHANGED <<ctor, client, served>>

add(c, messages, options) ==
  StartCall(c, "add", ("messages" :> messages) @@ ("options" :> options),
            NoError, addRequest(messages, options))

update_ApiError(c, memoryId, data) ==
  StartCall(c, "update", ("memoryId" :> memoryId) @@ ("data" :> data),
            IF Get(data, "text") = Undef /\ Get(data, "metadata") = Undef
            THEN APIError(400, "Either text or metadata must be provided for update.")
            ELSE NoError,
            Simple("PUT", "/v1/memories/" \o memoryId \o "/", JSONStringify(data)))

update_Falsy(c, memoryId, data) ==
  StartCall(c, "update", ("memoryId" :> memoryId) @@ ("data" :> data),
            IF ~Truthy(Get(data, "text")) /\ ~Truthy(Get(data, "metadata"))
            THEN Error("Either text or metadata must be provided for update.")
            ELSE NoError,
            Simple("PUT", "/v1/memories/" \o memoryId \o "/", JSONStringify(data)))

\* update(memoryId, data)
update(c, memoryId, data) ==
  StartCall(c, "update", ("memoryId" :> memoryId) @@ ("data" :> data),
            IF Get(data, "text") = Undef /\ Get(data, "metadata") = Undef
            THEN Error("Either text or metadata must be provided for update.")
            ELSE NoError,
            Simple("PUT", "/v1/memories/" \o memoryId \o "/", JSONStringify(data)))

get_Cached(c, memoryId) ==
  /\ CanCall(c)
  /\ calls' = [calls EXCEPT ![c] =
       IF memoryId \in served
       THEN [Begun("get", ("memoryId" :> memoryId)) EXCEPT
               !.pc = "returned", !.result = JObj(("id" :> Str(memoryId)))]
       ELSE [Begun("get", ("memoryId" :> memoryId)) EXCEPT
               !.pc = "fetching",
               !.reqs = <<Simple("GET", "/v1/memories/" \o memoryId \o "/", NoBody)>>]]
  /\ UNCHANGED <<ctor, client, served>>

\* get(memoryId)
get(c, memoryId) ==
  StartCall(c, "get", ("memoryId" :> memoryId), NoError,
            Simple("GET", "/v1/memories/" \o memoryId \o "/", NoBody))

\* `page=${page}&page_size=${page_size}` when both are truthy
paginationParams(page, page_size) ==
  IF Truthy(page) /\ Truthy(page_size)
  THEN "page=" \o JSString(page) \o "&page_size=" \o JSString(page_size)
  ELSE ""

getAllRequest_KeepPaging(options) ==
  LET api_version == Get(options, "api_version")
      page == Get(options, "page")
      page_size == Get(options, "page_size")
      otherOptions == Rest(options, {"api_version"})
      opts == addOrgProjectToOptions(otherOptions)
      pagination == paginationParams(page, page_size)
  IN IF api_version = Str("v2")
     THEN Request("POST",
                  IF pagination # ""
                  THEN client.host \o "/v2/memories/?" \o pagination
                  ELSE client.host \o "/v2/memories/",
                  "/v2/memories/", NoParams, pagination, JSONStringify(opts))
     ELSE LET params == prepareParams(opts)
          IN Request("GET",
                     IF pagination # ""
                     THEN client.host \o "/v1/memories/?" \o QueryString(params)
                          \o "&" \o pagination
                     ELSE client.host \o "/v1/memories/?" \o QueryString(params),
                     "/v1/memories/", params, pagination, NoBody)

\* getAll(options)
getAllRequest(options) ==
  LET api_version == Get(options, "api_version")
      page == Get(options, "page")
      page_size == Get(options, "page_size")
      otherOptions == Rest(options, {"api_version", "page", "page_size"})
      opts == addOrgProjectToOptions(otherOptions)
      pagination == paginationParams(page, page_size)
  IN IF api_version = Str("v2")
     THEN Request("POST",
                  IF pagination # ""
                  THEN client.host \o "/v2/memories/?" \o pagination
                  ELSE client.host \o "/v2/memories/",
                  "/v2/memories/", NoParams, pagination, JSONStringify(opts))
     ELSE LET params == prepareParams(opts)
          IN Request("GET",
                     IF pagination # ""
                     THEN client.host \o "/v1/memories/?" \o QueryString(params)
                          \o "&" \o pagination
                     ELSE client.host \o "/v1/memories/?" \o QueryString(params),
                     "/v1/memories/", params, pagination, NoBody)

getAll(c, options) ==
  StartCall(c, "getAll", ("options" :> options), NoError, getAllRequest(options))

searchRequest_KeepVersion(query, options) ==
  LET api_version == Get(options, "api_version")
      opts == addOrgProjectToOptions(options)
      payload == opts @@ ("query" :> query)
      endpoint == IF api_version = Str("v2") THEN "/v2/memories/search/"
                  ELSE "/v1/memories/search/"
  IN Simple("POST", endpoint, JSONStringify(payload))

\* search(query, options)
searchRequest(query, options) ==
  LET api_version == Get(options, "api_version")
      otherOptions == Rest(options, {"api_version"})
      opts == addOrgProjectToOptions(otherOptions)
      payload == opts @@ ("query" :> query)
      endpoint == IF api_version = Str("v2") THEN "/v2/memories/search/"
                  ELSE "/v1/memories/search/"
  IN Simple("POST", endpoint, JSONStringify(payload))

search(c, query, options) ==
  StartCall(c, "search", ("query" :> query) @@ ("options" :> options),
            NoError, searchRequest(query, options))

\* delete(memoryId)
delete(c, memoryId) ==
  StartCall(c, "delete", ("memoryId" :> memoryId), NoError,
            Simple("DELETE", "/v1/memories/" \o memoryId \o "/", NoBody))

\* deleteAll(options)
deleteAllRequest(options) ==
  LET opts == addOrgProjectToOptions(options)
      params == prepareParams(opts)
  IN Request("DELETE", client.host \o "/v1/memories/?" \o QueryString(params),
             "/v1/memories/", params, "", NoBody)

deleteAll(c, options) ==
  StartCall(c, "deleteAll", ("options" :> options), NoError, deleteAllRequest(options))

\* history(memoryId)
history(c, memoryId) ==
  StartCall(c, "history", ("memoryId" :> memoryId), NoError,
            Simple("GET", "/v1/memories/" \o memoryId \o "/history/", NoBody))

---------------------------------------------------------------------------
(* Connectivity check *)

\* ping() up to its await
ping(c) ==
  StartCall(c, "ping", EmptyBag, NoError, Simple("GET", "/v1/ping/", NoBody))

pingCheck_Lenient(response) ==
  IF ~Truthy(response) \/ TypeOf(response) # "object"
  THEN APIError(500, "Invalid response format from ping endpoint")
  ELSE NoError

\* ping() after the await: what it throws, NoError when it goes on
pingCheck(response) ==
  IF ~Truthy(response) \/ TypeOf(response) # "object"
  THEN APIError(500, "Invalid response format from ping endpoint")
  ELSE IF response.t = "array" \/ Get(response.o, "status") # Str("ok")
  THEN APIError(401,
         JSString(Coalesce(IF response.t = "array" THEN Undef
                           ELSE Get(response.o, "message"),
                           Str("API Key is invalid"))))
  ELSE NoError

pingLearn_LastWins(response) ==
  LET org_id == Get(response.o, "org_id")
      project_id == Get(response.o, "project_id")
  IN [client EXCEPT
        !.organizationId = IF Truthy(org_id) THEN org_id ELSE @,
        !.projectId = IF Truthy(project_id) THEN project_id ELSE @]

\* the org/project ids the client holds once ping has processed response
pingLearn(response) ==
  LET org_id == Get(response.o, "org_id")
      project_id == Get(response.o, "project_id")
  IN [client EXCEPT
        !.organizationId =
           IF Truthy(org_id) /\ ~Truthy(client.organizationId) THEN org_id ELSE @,
        !.projectId =
           IF Truthy(project_id) /\ ~Truthy(client.projectId) THEN project_id ELSE @]

pingSettles_LearnFirst(c, r) ==
  /\ calls[c].op = "ping" /\ calls[c].pc = "fetching"
  /\ LET call == Answered(calls[c], 1, r)
         res == FetchResult(calls[c].reqs[1], r)
     IN IF res.threw
        THEN /\ calls' = [calls EXCEPT ![c] = Finish(call, res)]
             /\ UNCHANGED client
        ELSE /\ calls' = [calls EXCEPT ![c] =
                  IF pingCheck(res.value) # NoError
                  THEN Finish(call, Threw(pingCheck(res.value)))
                  ELSE Finish(call, Returned(Undef))]
             /\ client' = IF res.value.t = "object" THEN pingLearn(res.value) ELSE client
  /\ UNCHANGED <<ctor, served>>

pingSettles(c, r) ==
  /\ calls[c].op = "ping" /\ calls[c].pc = "fetching"
  /\ LET call == Answered(calls[c], 1, r)
         res == FetchResult(calls[c].reqs[1], r)
     IN IF res.threw
        THEN /\ calls' = [calls EXCEPT ![c] = Finish(call, res)]
             /\ UNCHANGED client
        ELSE IF pingCheck(res.value) # NoError
        THEN /\ calls' = [calls EXCEPT ![c] = Finish(call, Threw(pingCheck(res.value)))]
             /\ UNCHANGED client
        ELSE /\ calls' = [calls EXCEPT ![c] = Finish(call, Returned(Undef))]
             /\ client' = pingLearn(res.value)
  /\ UNCHANGED <<ctor, served>>

---------------------------------------------------------------------------
(* Entities *)

\* users()
usersRequest ==
  LET opts == addOrgProjectToOptions(EmptyBag)
      params == prepareParams(opts)
  IN Request("GET", client.host \o "/v1/entities/?" \o QueryString(params),
             "/v1/entities/", params, "", NoBody)

users(c) == StartCall(c, "users", EmptyBag, NoError, usersRequest)

\* deleteUser(data)
deleteUser(c, data) ==
  LET entityType == Coalesce(Get(data, "entity_type"), Str("user"))
  IN StartCall(c, "deleteUser", ("data" :> data), NoError,
               Simple("DELETE",
                      "/v1/entities/" \o JSString(entityType) \o "/"
                      \o JSString(Get(data, "entity_id")) \o "/", NoBody))

Entity(type, name) == [type |-> type, name |-> name]

targeted_Each(params) ==
  (IF Truthy(Get(params, "user_id")) THEN <<Entity("user", params["user_id"].s)>> ELSE <<>>)
  \o (IF Truthy(Get(params, "agent_id")) THEN <<Entity("agent", params["agent_id"].s)>> ELSE <<>>)
  \o (IF Truthy(Get(params, "app_id")) THEN <<Entity("app", params["app_id"].s)>> ELSE <<>>)
  \o (IF Truthy(Get(params, "run_id")) THEN <<Entity("run", params["run_id"].s)>> ELSE <<>>)

\* the list deleteUsers builds from its arguments; <<>> when none is truthy
targeted(params) ==
  CASE Truthy(Get(params, "user_id")) -> <<Entity("user", params["user_id"].s)>>
    [] Truthy(Get(params, "agent_id")) -> <<Entity("agent", params["agent_id"].s)>>
    [] Truthy(Get(params, "app_id")) -> <<Entity("app", params["app_id"].s)>>
    [] Truthy(Get(params, "run_id")) -> <<Entity("run", params["run_id"].s)>>
    [] OTHER -> <<>>

\* new URLSearchParams(this.#prepareParams(this.#addOrgProjectToOptions({})))
scopeQuery == prepareParams(addOrgProjectToOptions(EmptyBag))

\* the DELETE request of the loop body for one entity
entityDelete(entity, queryParams) ==
  Request("DELETE",
          client.host \o "/v2/entities/" \o entity.type \o "/" \o entity.name
          \o "/?" \o QueryString(queryParams),
          "/v2/entities/" \o entity.type \o "/" \o entity.name \o "/",
          queryParams, "", NoBody)

\* deleteUsers(params) up to its first await
deleteUsers(c, params) ==
  /\ CanCall(c)
  /\ LET toDelete == targeted(params)
         call == Begun("deleteUsers", ("params" :> params))
     IN calls' = [calls EXCEPT ![c] =
          IF toDelete = <<>>
          THEN [call EXCEPT !.pc = "fetching", !.reqs = <<usersRequest>>]
          ELSE [call EXCEPT !.pc = "fetching", !.toDelete = toDelete,
                            !.queryParams = scopeQuery,
                            !.reqs = <<entityDelete(toDelete[1], scopeQuery)>>]]
  /\ UNCHANGED <<ctor, client, served>>

\* entities.results.map(...) : the listing as a list of {type, name}
listed(entities) ==
  [i \in 1..Len(entities.o["results"].a) |->
     Entity(entities.o["results"].a[i].o["type"].s,
            entities.o["results"].a[i].o["name"].s)]

HasResults(v) == v.t = "object" /\ Get(v.o, "results").t = "array"

deleteUsersListed_Parallel(c, r) ==
  /\ calls[c].op = "deleteUsers" /\ calls[c].pc = "fetching"
  /\ calls[c].toDelete = <<>>
  /\ LET call == Answered(calls[c], 1, r)
         res == FetchResult(calls[c].reqs[1], r)
     IN calls' = [calls EXCEPT ![c] =
          IF res.threw THEN Finish(call, res)
          ELSE IF ~HasResults(res.value)
          THEN Finish(call, Threw([name |-> "TypeError",
                                   message |-> "Cannot read properties of undefined"]))
          ELSE IF listed(res.value) = <<>>
          THEN Finish(call, Threw(Error("No entities to delete")))
          ELSE [call EXCEPT !.toDelete = listed(res.value),
                            !.queryParams = scopeQuery,
                            !.reqs = @ \o [i \in 1..Len(listed(res.value)) |->
                                             entityDelete(listed(res.value)[i], scopeQuery)]]]
  /\ UNCHANGED <<ctor, client, served>>

deleteUsersListed_NoEmptyCheck(c, r) ==
  /\ calls[c].op = "deleteUsers" /\ calls[c].pc = "fetching"
  /\ calls[c].toDelete = <<>>
  /\ LET call == Answered(calls[c], 1, r)
         res == FetchResult(calls[c].reqs[1], r)
     IN calls' = [calls EXCEPT ![c] =
          IF res.threw THEN Finish(call, res)
          ELSE IF ~HasResults(res.value)
          THEN Finish(call, Threw([name |-> "TypeError",
                                   message |-> "Cannot read properties of undefined"]))
          ELSE IF listed(res.value) = <<>>
          THEN Finish(call, Returned(JObj(("message" :>
                              Str("All users, agents, apps and runs deleted.")))))
          ELSE [call EXCEPT !.toDelete = listed(res.value),
                            !.queryParams = scopeQuery,
                            !.reqs = @ \o <<entityDelete(listed(res.value)[1], scopeQuery)>>]]
  /\ UNCHANGED <<ctor, client, served>>

\* deleteUsers() with no identifier, once the listing is answered
deleteUsersListed(c, r) ==
  /\ calls[c].op = "deleteUsers" /\ calls[c].pc = "fetching"
  /\ calls[c].toDelete = <<>>
  /\ LET call == Answered(calls[c], 1, r)
         res == FetchResult(calls[c].reqs[1], r)
     IN calls' = [calls EXCEPT ![c] =
          IF res.threw THEN Finish(call, res)
          ELSE IF ~HasResults(res.value)
          THEN Finish(call, Threw([name |-> "TypeError",
                                   message |-> "Cannot read properties of undefined"]))
          ELSE IF listed(res.value) = <<>>
          THEN Finish(call, Threw(Error("No entities to delete")))
          ELSE [call EXCEPT !.toDelete = listed(res.value),
                            !.queryParams = scopeQuery,
                            !.reqs = @ \o <<entityDelete(listed(res.value)[1], scopeQuery)>>]]
  /\ UNCHANGED <<ctor, client, served>>

deleteUsersMessage(params) ==
  IF Truthy(Get(params, "user_id")) \/ Truthy(Get(params, "agent_id"))
     \/ Truthy(Get(params, "app_id")) \/ Truthy(Get(params, "run_id"))
  THEN "Entity deleted successfully."
  ELSE "All users, agents, apps and runs deleted."

deleteUsersDeleted_Continue(c, r) ==
  /\ calls[c].op = "deleteUsers" /\ calls[c].pc = "fetching"
  /\ calls[c].toDelete # <<>>
  /\ \E i \in Pending(calls[c]) :
       LET call == Answered(calls[c], i, r)
           res == FetchResult(calls[c].reqs[i], r)
           k == IF calls[c].reqs[1].method = "GET" THEN i - 1 ELSE i
           done == IF res.threw THEN call.applied ELSE call.applied \o <<call.toDelete[k]>>
       IN calls' = [calls EXCEPT ![c] =
            IF k < Len(call.toDelete)
            THEN [call EXCEPT !.applied = done,
                              !.reqs = @ \o <<entityDelete(call.toDelete[k + 1],
                                                           call.queryParams)>>]
            ELSE Finish([call EXCEPT !.applied = done],
                        Returned(JObj(("message" :>
                                       Str(deleteUsersMessage(call.args["params"]))))))]
  /\ UNCHANGED <<ctor, client, served>>

\* deleteUsers(): one turn of the loop, once a DELETE is answered
deleteUsersDeleted(c, r) ==
  /\ calls[c].op = "deleteUsers" /\ calls[c].pc = "fetching"
  /\ calls[c].toDelete # <<>>
  /\ \E i \in Pending(calls[c]) :
       LET call == Answered(calls[c], i, r)
           res == FetchResult(calls[c].reqs[i], r)
           k == IF calls[c].reqs[1].method = "GET" THEN i - 1 ELSE i
       IN calls' = [calls EXCEPT ![c] =
            IF res.threw THEN Finish(call, res)
            ELSE IF k < Len(call.toDelete)
            THEN [call EXCEPT !.applied = @ \o <<call.toDelete[k]>>,
                              !.reqs = @ \o <<entityDelete(call.toDelete[k + 1],
                                                           call.queryParams)>>]
            ELSE Finish([call EXCEPT !.applied = @ \o <<call.toDelete[k]>>],
                        Returned(JObj(("message" :>
                                       Str(deleteUsersMessage(call.args["params"]))))))]
  /\ UNCHANGED <<ctor, client, served>>

---------------------------------------------------------------------------
(* Batch operations, project settings, webhooks, feedback, exports *)

\* batchUpdate(memories)
batchUpdate(c, memories) ==
  LET memoriesBody ==
        [i \in 1..Len(memories) |->
           JObj(("memory_id" :> Get(memories[i], "memoryId"))
                @@ ("text" :> Get(memories[i], "text")))]
  IN StartCall(c, "batchUpdate", ("memories" :> memories), NoError,
               Simple("PUT", "/v1/batch/",
                      JSONStringify(("memories" :> JArr(memoriesBody)))))

\* batchDelete(memoryIds)
batchDelete(c, memoryIds) ==
  LET memoriesBody ==
        [i \in 1..Len(memoryIds) |-> JObj(("memory_id" :> Str(memoryIds[i])))]
  IN StartCall(c, "batchDelete", ("memoryIds" :> memoryIds), NoError,
               Simple("DELETE", "/v1/batch/",
                      JSONStringify(("memories" :> JArr(memoriesBody)))))

projectUnset_Both == ~Truthy(client.organizationId) /\ ~Truthy(client.projectId)

\* !(this.#organizationId && this.#projectId)
projectUnset == ~(Truthy(client.organizationId) /\ Truthy(client.projectId))

projectPath ==
  "/api/v1/orgs/organizations/" \o JSString(client.organizationId)
  \o "/projects/" \o JSString(client.projectId) \o "/"

RECURSIVE fieldsQuery(_)
\* params.append("fields", field) for each field, serialised
fieldsQuery(fields) ==
  IF fields = <<>> THEN ""
  ELSE "fields=" \o Encode(fields[1])
       \o (IF Len(fields) > 1 THEN "&" \o fieldsQuery(Tail(fields)) ELSE "")

\* getProject(options)
getProject(c, options) ==
  LET fields == IF "fields" \in DOMAIN options THEN options["fields"] ELSE <<>>
  IN StartCall(c, "getProject", ("options" :> options),
               IF projectUnset
               THEN Error("organizationId and projectId must be set to access project settings")
               ELSE NoError,
               Request("GET", client.host \o projectPath \o "?" \o fieldsQuery(fields),
                       projectPath, NoParams, fieldsQuery(fields), NoBody))

\* updateProject(prompts)
updateProject(c, prompts) ==
  StartCall(c, "updateProject", ("prompts" :> prompts),
            IF projectUnset
            THEN Error("organizationId and projectId must be set to update project settings")
            ELSE NoError,
            Simple("PATCH", projectPath, JSONStringify(prompts)))

\* getWebhooks(data)
getWebhooks(c, data) ==
  LET projectId == Coalesce(Get(data, "projectId"), client.projectId)
  IN StartCall(c, "getWebhooks", ("data" :> data), NoError,
               Simple("GET", "/api/v1/webhooks/projects/" \o JSString(projectId) \o "/",
                      NoBody))

\* createWebhook(webhook)
createWebhook(c, webhook) ==
  StartCall(c, "createWebhook", ("webhook" :> webhook), NoError,
            Simple("POST",
                   "/api/v1/webhooks/projects/" \o JSString(client.projectId) \o "/",
                   JSONStringify(webhook)))

\* updateWebhook(webhook)
updateWebhook(c, webhook) ==
  LET projectId == IF Truthy(Get(webhook, "projectId")) THEN webhook["projectId"]
                   ELSE client.projectId
  IN StartCall(c, "updateWebhook", ("webhook" :> webhook), NoError,
               Simple("PUT",
                      "/api/v1/webhooks/" \o JSString(Get(webhook, "webhookId")) \o "/",
                      JSONStringify(("projectId" :> projectId) @@ webhook)))

\* deleteWebhook(data)
deleteWebhook(c, data) ==
  StartCall(c, "deleteWebhook", ("data" :> data), NoError,
            Simple("DELETE",
                   "/api/v1/webhooks/" \o JSString(Get(data, "webhookId")) \o "/",
                   NoBody))

\* feedback(data)
feedback(c, data) ==
  StartCall(c, "feedback", ("data" :> data), NoError,
            Simple("POST", "/v1/feedback/", JSONStringify(data)))

\* id?.toString() ?? fallback
idString(id, fallback) == IF id \in {Null, Undef} THEN fallback ELSE Str(JSString(id))

createMemoryExport_CallerWins(c, data) ==
  LET payload == data @@ ("org_id" :> idString(client.organizationId, Null))
                 @@ ("project_id" :> idString(client.projectId, Null))
  IN StartCall(c, "createMemoryExport", ("data" :> data),
               IF ~Truthy(Get(data, "filters")) \/ ~Truthy(Get(data, "schema"))
               THEN Error("Missing filters or schema")
               ELSE NoError,
               Simple("POST", "/v1/exports/", JSONStringify(payload)))

\* createMemoryExport(data)
createMemoryExport(c, data) ==
  LET payload == ("org_id" :> idString(client.organizationId, Null))
                 @@ ("project_id" :> idString(client.projectId, Null)) @@ data
  IN StartCall(c, "createMemoryExport", ("data" :> data),
               IF ~Truthy(Get(data, "filters")) \/ ~Truthy(Get(data, "schema"))
               THEN Error("Missing filters or schema")
               ELSE NoError,
               Simple("POST", "/v1/exports/", JSONStringify(payload)))

\* getMemoryExport(data)
getMemoryExport(c, data) ==
  LET payload == ("org_id" :> idString(client.organizationId, Str("")))
                 @@ ("project_id" :> idString(client.projectId, Str(""))) @@ data
  IN StartCall(c, "getMemoryExport", ("data" :> data),
               IF ~Truthy(Get(data, "memory_export_id")) /\ ~Truthy(Get(data, "filters"))
               THEN Error("Missing memory_export_id or filters")
               ELSE NoError,
               Simple("POST", "/v1/exports/get/", JSONStringify(payload)))

---------------------------------------------------------------------------
(* The single-request methods after their await *)

SingleRequestOps ==
  { "add", "update", "get", "getAll", "search", "delete", "deleteAll", "history",
    "users", "deleteUser", "batchUpdate", "batchDelete", "getProject",
    "updateProject", "getWebhooks", "createWebhook", "updateWebhook",
    "deleteWebhook", "feedback", "createMemoryExport", "getMemoryExport" }

\* `return response as T` : the parsed body is handed back as it is
fetchSettles(c, r) ==
  /\ calls[c].op \in SingleRequestOps /\ calls[c].pc = "fetching"
  /\ \E i \in Pending(calls[c]) :
       LET res == FetchResult(calls[c].reqs[i], r)
       IN /\ calls' = [calls EXCEPT ![c] = Finish(Answered(calls[c], i, r), res)]
          /\ served' = IF calls[c].op = "get" /\ ~res.threw
                       THEN served \cup {calls[c].args["memoryId"]}
                       ELSE served
  /\ UNCHANGED <<ctor, client>>

---------------------------------------------------------------------------
(* Inputs of the callers and answers of the remote service *)

MemoryIds == {"mem_1", "mem_2"}

Message == JObj(("role" :> Str("user")) @@ ("content" :> Str("I like coffee")))
MessageLists == {JArr(<<>>), JArr(<<Message>>)}

Alice == ("user_id" :> Str("alice"))

BasicOptions ==
  { EmptyBag, Alice, ("api_version" :> Str("v2")) @@ Alice,
    ("page" :> Num(1)) @@ ("page_size" :> Num(10)) @@ Alice }

UpdateData ==
  { EmptyBag, ("text" :> Str("new text")), ("metadata" :> JObj(EmptyBag)),
    ("text" :> Undef), ("text" :> Str("")) }

DeleteUserData ==
  { ("entity_id" :> Num(7)), ("entity_id" :> Num(7)) @@ ("entity_type" :> Str("agent")) }

DeleteUsersParams ==
  { EmptyBag, Alice, ("agent_id" :> Str("bot")), ("app_id" :> Str("app1")),
    ("run_id" :> Str("run1")), Alice @@ ("agent_id" :> Str("bot")),
    ("user_id" :> Str("")), ("agent_id" :> Str("bot")) @@ ("run_id" :> Str("run1")),
    ("user_id" :> Str("")) @@ ("app_id" :> Str("app1")) @@ ("run_id" :> Str("run1")) }

BatchUpdates == { <<>>, <<("memoryId" :> Str("mem_1")) @@ ("text" :> Str("t"))>> }
BatchDeletes == { <<>>, <<"mem_1", "mem_2">> }

ProjectOptionsSet == { EmptyBag, ("fields" :> <<"custom_instructions">>) }
Prompts == { ("custom_instructions" :> Str("be brief")) }

WebhookPayloads ==
  { ("webhookId" :> Str("wh_1")) @@ ("name" :> Str("hook")),
    ("webhookId" :> Str("wh_1")) @@ ("projectId" :> Str("proj_2")) }
GetWebhooksData == { EmptyBag, ("projectId" :> Str("proj_2")) }

FeedbackPayloads == { ("memory_id" :> Str("mem_1")) @@ ("feedback" :> Str("POSITIVE")) }

Filters == JObj(Alice)
Schema == JObj(("type" :> Str("object")))
CreateExportData ==
  { EmptyBag, ("filters" :> Filters), ("schema" :> Schema),
    ("filters" :> Filters) @@ ("schema" :> Schema),
    ("filters" :> Filters) @@ ("schema" :> Schema) @@ ("org_id" :> Str("caller_org")),
    ("filters" :> JObj(EmptyBag)) @@ ("schema" :> Schema),
    ("filters" :> Null) @@ ("schema" :> Schema) @@ ("export_instructions" :> Str("short")) }
GetExportData ==
  { EmptyBag, ("filters" :> Filters), ("memory_export_id" :> Str("exp_1")),
    ("org_id" :> Str("caller_org")), ("memory_export_id" :> Str("")),
    ("memory_export_id" :> Str("")) @@ ("filters" :> Filters),
    ("memory_export_id" :> Str("exp_1")) @@ ("org_id" :> Str("caller_org"))
      @@ ("project_id" :> Null) }

EntityObjs ==
  { JObj(("type" :> Str("user")) @@ ("name" :> Str("alice"))),
    JObj(("type" :> Str("agent")) @@ ("name" :> Str("bot"))) }

\* the entity listings the service may return, up to MaxEntities long
Listings == UNION { [1..n -> EntityObjs] : n \in 0..MaxEntities }

ListingBodies ==
  { JObj(("results" :> JArr(l))) : l \in Listings } \cup { JObj(EmptyBag), Unparsable }

PingBodies ==
  { JObj(("status" :> Str("ok"))),
    JObj(("status" :> Str("ok")) @@ ("org_id" :> Str("org_9"))
         @@ ("project_id" :> Str("proj_9"))),
    JObj(("status" :> Str("ok")) @@ ("org_id" :> Str("org_9"))),
    JObj(("status" :> Str("ok")) @@ ("org_id" :> Num(42)) @@ ("project_id" :> Num(7))),
    JObj(("status" :> Str("error")) @@ ("message" :> Str("Invalid API key"))),
    JObj(("status" :> Str("error"))),
    JObj(("status" :> Str("error")) @@ ("message" :> Null)),
    JArr(<<>>),
    JObj(("org_id" :> Str("org_9")) @@ ("project_id" :> Str("proj_9"))),
    Null, Str("pong"), Unparsable }

GenericBodies ==
  { JArr(<<>>), JArr(<<JObj(("id" :> Str("mem_123")))>>),
    JObj(("message" :> Str("done"))), Unparsable }

AwaitsListing(call) ==
  call.op = "users" \/ (call.op = "deleteUsers" /\ call.toDelete = <<>>)

\* every answer the transport can give to the request the call is waiting for
Responses(call) ==
  Failures \cup
  { Success(b) : b \in IF call.op = "ping" THEN PingBodies
                       ELSE IF AwaitsListing(call) THEN ListingBodies
                       ELSE GenericBodies }

---------------------------------------------------------------------------
(* One caller using the whole API, one call after the other *)

\* the caller of the single-caller specifications
Caller == CHOOSE c \in Callers : \A d \in Callers : c <= d

Next ==
  \/ Construct
  \/ ping(Caller)
  \/ \E m \in MessageLists, o \in BasicOptions : add(Caller, m, o)
  \/ \E id \in MemoryIds, d \in UpdateData : update(Caller, id, d)
  \/ \E id \in MemoryIds : get(Caller, id)
  \/ \E o \in BasicOptions : getAll(Caller, o)
  \/ \E o \in BasicOptions : search(Caller, Str("coffee"), o)
  \/ \E id \in MemoryIds : delete(Caller, id)
  \/ \E o \in BasicOptions : deleteAll(Caller, o)
  \/ \E id \in MemoryIds : history(Caller, id)
  \/ users(Caller)
  \/ \E d \in DeleteUserData : deleteUser(Caller, d)
  \/ \E p \in DeleteUsersParams : deleteUsers(Caller, p)
  \/ \E b \in BatchUpdates : batchUpdate(Caller, b)
  \/ \E b \in BatchDeletes : batchDelete(Caller, b)
  \/ \E o \in ProjectOptionsSet : getProject(Caller, o)
  \/ \E p \in Prompts : updateProject(Caller, p)
  \/ \E d \in GetWebhooksData : getWebhooks(Caller, d)
  \/ \E w \in WebhookPayloads : createWebhook(Caller, w)
  \/ \E w \in WebhookPayloads : updateWebhook(Caller, w)
  \/ \E w \in WebhookPayloads : deleteWebhook(Caller, w)
  \/ \E f \in FeedbackPayloads : feedback(Caller, f)
  \/ \E d \in CreateExportData : createMemoryExport(Caller, d)
  \/ \E d \in GetExportData : getMemoryExport(Caller, d)
  \/ \E r \in Responses(calls[Caller]) : pingSettles(Caller, r)
  \/ \E r \in Responses(calls[Caller]) : deleteUsersListed(Caller, r)
  \/ \E r \in Responses(calls[Caller]) : deleteUsersDeleted(Caller, r)
  \/ \E r \in Responses(calls[Caller]) : fetchSettles(Caller, r)
  \/ Return(Caller)

Spec == Init /\ [][Next]_vars

---------------------------------------------------------------------------
(* Properties of the request execution core and of construction *)

Active == {c \in Callers : calls[c].op # "idle"}

Settled(call) == {i \in 1..Len(call.reqs) : call.reqs[i].state = "settled"}

\* the request was answered with a non-success HTTP status
HttpFailed(req) == req.response.kind = "http" /\ ~Ok(req.response)

\* the request was answered with a failure of any kind
Failed(req) == req.response.kind = "reject" \/ HttpFailed(req)

\* C1: whenever a request of any operation is answered with a non-success
\* status S and body text T, the call has failed with an APIError whose status
\* is S and whose message contains T, or the status line when T is empty.
C1_ErrorStatusFidelity ==
  \A c \in Active : \A i \in Settled(calls[c]) :
    LET req == calls[c].reqs[i]
        r == req.response
    IN HttpFailed(req) =>
         /\ calls[c].pc = "threw"
         /\ calls[c].error.name = "APIError"
         /\ calls[c].error.status = r.status
         /\ Includes(calls[c].error.message, IF r.text # "" THEN r.text ELSE r.statusText)

C1_Witness ==
  \E c \in Active :
    /\ calls[c].op = "search"
    /\ calls[c].pc = "threw"
    /\ calls[c].reqs[1].response.kind = "http"
    /\ calls[c].reqs[1].response.status = 401
    /\ calls[c].reqs[1].response.text = "Rate limit exceeded"
    /\ calls[c].error.status = 401

WhitespaceOnly(s) == \A i \in 1..Len(s) : IsSpace(SubSeq(s, i, i))

\* apiKey is missing, not a string, or empty / whitespace-only
UnusableKey(k) == k.t # "string" \/ WhitespaceOnly(k.s)

NoRequestIssued == \A c \in Callers : calls[c].reqs = <<>>

\* C2: construction throws exactly when apiKey is missing, not a string or
\* empty / whitespace-only; a half-given scoping pair only produces a warning;
\* and construction, failed or successful, issues no network request.
C2_ConstructionValidatesKey ==
  /\ [](ctor.outcome # "pending" =>
          /\ (ctor.outcome = "threw") = UnusableKey(Get(ctor.options, "apiKey"))
          /\ ctor.outcome = "threw" => (ctor.error.name = "Error" /\ client.st = "none"
                                        /\ NoRequestIssued)
          /\ ctor.outcome = "ok" =>
               /\ client.st = "ok" /\ ctor.error = NoError
               /\ (Get(ctor.options, "organizationId") = Undef)
                    # (Get(ctor.options, "projectId") = Undef) => IdWarning \in ctor.warnings
               /\ (Get(ctor.options, "organizationName") = Undef)
                    # (Get(ctor.options, "projectName") = Undef) => NameWarning \in ctor.warnings)
  /\ [][ctor.outcome = "pending" /\ ctor'.outcome # "pending" => NoRequestIssued']_vars

C2_Witness ==
  /\ ctor.outcome = "threw"
  /\ Get(ctor.options, "apiKey") = Str(" \t ")
  /\ ctor.error.message = "Mem0 API key cannot be empty"

---------------------------------------------------------------------------
(* Properties of deleteUsers, of the single attempt and of the configuration *)

\* the calls of deleteUsers on the delete-everything path (no identifier given)
Bulk == {c \in Active : calls[c].op = "deleteUsers" /\ calls[c].reqs[1].method = "GET"}

\* the entities of the listing the call received, in the order received
ListingOf(call) ==
  LET a == call.reqs[1].response.json.o["results"].a
  IN [i \in 1..Len(a) |-> Entity(a[i].o["type"].s, a[i].o["name"].s)]

GotListing(call) ==
  /\ call.reqs[1].state = "settled"
  /\ call.reqs[1].response.kind = "http" /\ Ok(call.reqs[1].response)
  /\ HasResults(call.reqs[1].response.json)

\* C3: when the k-th delete request of a delete-everything call fails, the call
\* has thrown that request's error, the k-1 earlier deletions are still applied,
\* no later delete request has been issued and no success message is returned.
C3_BulkFailurePropagates ==
  \A c \in Bulk : \A i \in 2..Len(calls[c].reqs) :
    LET call == calls[c]
    IN Failed(call.reqs[i]) =>
         /\ call.pc = "threw"
         /\ call.error = FetchResult(call.reqs[i], call.reqs[i].response).error
         /\ Len(call.reqs) = i
         /\ call.applied = SubSeq(ListingOf(call), 1, i - 2)
         /\ call.result = Undef

C3_Witness ==
  \E c \in Bulk :
    /\ Len(calls[c].reqs) = 3
    /\ HttpFailed(calls[c].reqs[3])
    /\ calls[c].pc = "threw"
    /\ Len(calls[c].applied) = 1
    /\ Len(calls[c].toDelete) = 2

\* C4: a delete-everything call issues exactly one listing request, first; every
\* later request is the DELETE of the next entity of the listing, in the order
\* the listing gave; a DELETE is issued only once the previous request has
\* completed; and a call that returns has issued one DELETE per listed entity.
C4_ListThenDeleteInOrder ==
  \A c \in Bulk :
    LET call == calls[c]
    IN /\ call.reqs[1].path = "/v1/entities/"
       /\ Cardinality(Pending(call)) <= 1
       /\ \A i \in 2..Len(call.reqs) :
            /\ GotListing(call)
            /\ i - 1 <= Len(ListingOf(call))
            /\ call.reqs[i].method = "DELETE"
            /\ call.reqs[i].path =
                 "/v2/entities/" \o ListingOf(call)[i - 1].type \o "/"
                 \o ListingOf(call)[i - 1].name \o "/"
            /\ call.reqs[i - 1].state = "settled"
            /\ ~Failed(call.reqs[i - 1])
       /\ call.pc = "returned" => Len(call.reqs) = 1 + Len(ListingOf(call))

C4_Witness ==
  \E c \in Bulk :
    /\ calls[c].pc = "returned"
    /\ Len(calls[c].reqs) = 3
    /\ calls[c].reqs[2].path = "/v2/entities/agent/bot/"
    /\ calls[c].reqs[3].path = "/v2/entities/user/alice/"

\* the methods that check their arguments or the configuration before fetching
ValidatingOps ==
  {"update", "getProject", "updateProject", "createMemoryExport", "getMemoryExport"}

\* C5: a call makes a single attempt: it has issued no request only if it threw
\* on local validation, and otherwise exactly one request (delete-everything:
\* the listing plus at most one DELETE per listed entity, all of them once it
\* returns); no request follows a failed or timed-out one; and get issues its
\* request also for an id an earlier get has already returned.
C5_SingleAttempt ==
  \A c \in Active :
    LET call == calls[c]
    IN /\ call.reqs = <<>> => (call.pc = "threw" /\ call.op \in ValidatingOps)
       /\ call.op \notin ValidatingOps => Len(call.reqs) >= 1
       /\ c \notin Bulk => Len(call.reqs) <= 1
       /\ c \in Bulk =>
            /\ Len(call.reqs) > 1 => Len(call.reqs) <= 1 + Len(ListingOf(call))
            /\ call.pc = "returned" => Len(call.reqs) = 1 + Len(ListingOf(call))
       /\ \A i \in 1..Len(call.reqs) :
            Failed(call.reqs[i]) => (i = Len(call.reqs) /\ call.pc = "threw")
       /\ call.pc \in {"returned", "threw"} => Pending(call) = {}

C5_Witness ==
  \E c \in Active :
    /\ calls[c].op = "get"
    /\ calls[c].args["memoryId"] \in served
    /\ calls[c].pc = "fetching"
    /\ Len(calls[c].reqs) = 1

Immutable(f) ==
  <<f.apiKey, f.host, f.headers, f.timeout, f.organizationName, f.projectName>>

PingSucceeds(c) ==
  calls[c].op = "ping" /\ calls[c].pc = "fetching" /\ calls'[c].pc = "returned"

\* C6: once the client is constructed, no step changes apiKey, host, headers,
\* timeout, organizationName or projectName, and organizationId / projectId
\* change only in the step in which a ping completes successfully; in
\* particular a ping that fails leaves every field as it was.
C6_ConfigFrame ==
  [][client.st = "ok" =>
       /\ Immutable(client') = Immutable(client)
       /\ client' # client => \E c \in Callers : PingSucceeds(c)]_vars

C6_Witness ==
  /\ Get(ctor.options, "organizationId") = Undef
  /\ client.organizationId = Str("org_9")
  /\ client.projectId = Str("proj_9")

---------------------------------------------------------------------------
(* One caller exercising the option merging and the two wire formats *)

OptionalOf(k, vs) == {EmptyBag} \cup {(k :> v) : v \in vs}

WireClientOptions ==
  { ("apiKey" :> Str("m0-key")) @@ i @@ n :
      i \in { EmptyBag, ("organizationId" :> Str("org_1")),
              ("projectId" :> Str("proj_1")), Ids,
              ("organizationId" :> Num(42)) @@ ("projectId" :> Num(7)) },
      n \in { EmptyBag, ("organizationName" :> Str("acme")),
              ("projectName" :> Str("demo")), Names } }

VersionChoices ==
  { a @@ v : a \in OptionalOf("api_version", {Str("v1"), Str("v2")}),
             v \in OptionalOf("version", {Str("v2")}) }

PageChoices ==
  { p @@ ps : p \in OptionalOf("page", {Num(n) : n \in 0..MaxPage}),
              ps \in OptionalOf("page_size", {Num(0), Num(10)}) }

FilterChoices ==
  { EmptyBag, Alice, ("user_id" :> Null),
    ("user_id" :> Undef) @@ ("limit" :> Num(5)),
    ("filters" :> Filters),
    ("org_name" :> Str("theirs")) @@ ("project_name" :> Str("other")),
    ("org_id" :> Str("caller_org")) @@ Alice }

ListOptions == { v @@ p @@ f : v \in VersionChoices, p \in PageChoices, f \in FilterChoices }
PlainOptions == { v @@ f : v \in VersionChoices, f \in FilterChoices }

WireResponses(call) ==
  { [kind |-> "http", status |-> 500, statusText |-> "Internal Server Error",
     text |-> "", json |-> Unparsable] }
  \cup
  { Success(b) : b \in IF AwaitsListing(call)
                       THEN { JObj(("results" :> JArr(l))) :
                                l \in [1..1 -> EntityObjs] }
                       ELSE { JArr(<<>>) } }

InitWire ==
  /\ ctor \in [ options : WireClientOptions, outcome : {"pending"},
                error : {NoError}, warnings : {{}} ]
  /\ client = NoClient
  /\ calls = [c \in Callers |-> IdleCall]
  /\ served = {}

NextWire ==
  \/ Construct
  \/ \E m \in MessageLists, o \in PlainOptions : add(Caller, m, o)
  \/ \E o \in ListOptions : getAll(Caller, o)
  \/ \E o \in PlainOptions : search(Caller, Str("coffee"), o)
  \/ \E o \in FilterChoices : deleteAll(Caller, o)
  \/ users(Caller)
  \/ \E p \in {EmptyBag, Alice} : deleteUsers(Caller, p)
  \/ \E r \in WireResponses(calls[Caller]) : deleteUsersListed(Caller, r)
  \/ \E r \in WireResponses(calls[Caller]) : deleteUsersDeleted(Caller, r)
  \/ \E r \in WireResponses(calls[Caller]) : fetchSettles(Caller, r)
  \/ Return(Caller)

SpecWire == InitWire /\ [][NextWire]_vars

---------------------------------------------------------------------------
(* Properties of the option merging and of the wire formats *)

\* the methods that merge the client's scope into what they send
ScopeOps == {"add", "getAll", "search", "deleteAll", "users", "deleteUsers"}

BothPairsSet ==
  /\ client.organizationId # Null /\ client.projectId # Null
  /\ client.organizationName # Null /\ client.projectName # Null

\* C7: with both the id pair and the name pair set on the client, every request
\* of add, getAll, search, deleteAll, users and deleteUsers carries org_id and
\* project_id and neither org_name nor project_name, in its JSON body or in
\* its query string, whatever the caller's options contained.
C7_IdsReplaceNames ==
  \A c \in Active : \A i \in 1..Len(calls[c].reqs) :
    LET req == calls[c].reqs[i]
    IN (BothPairsSet /\ calls[c].op \in ScopeOps) =>
         IF req.body # NoBody
         THEN /\ Get(req.body, "org_id") = client.organizationId
              /\ Get(req.body, "project_id") = client.projectId
              /\ "org_name" \notin DOMAIN req.body
              /\ "project_name" \notin DOMAIN req.body
         ELSE /\ Includes(req.url, "org_id=" \o JSString(client.organizationId))
              /\ Includes(req.url, "project_id=" \o JSString(client.projectId))
              /\ ~Includes(req.url, "org_name")
              /\ ~Includes(req.url, "project_name")

C7_Witness ==
  \E c \in Active :
    /\ BothPairsSet
    /\ calls[c].op = "add"
    /\ Get(calls[c].args["options"], "org_name") = Str("theirs")
    /\ Len(calls[c].reqs) = 1
    /\ Get(calls[c].reqs[1].body, "org_id") = Str("org_1")

WantsV2(options) ==
  Get(options, "api_version") = Str("v2") \/ Get(options, "version") = Str("v2")

\* C8: getAll and search use the v2 wire format (POST to /v2/memories/, resp.
\* /v2/memories/search/) when the options set api_version or its alias version
\* to "v2", and the v1 wire format otherwise.
C8_VersionOrAliasSelectsV2 ==
  \A c \in Active :
    LET call == calls[c]
    IN /\ call.op = "getAll" =>
            IF WantsV2(call.args["options"])
            THEN call.reqs[1].method = "POST" /\ call.reqs[1].path = "/v2/memories/"
            ELSE call.reqs[1].method = "GET" /\ call.reqs[1].path = "/v1/memories/"
       /\ call.op = "search" =>
            IF WantsV2(call.args["options"])
            THEN call.reqs[1].method = "POST" /\ call.reqs[1].path = "/v2/memories/search/"
            ELSE call.reqs[1].method = "POST" /\ call.reqs[1].path = "/v1/memories/search/"

\* the options with the client's scope merged in: the id pair when it is set,
\* replacing any names, and else the name pair when it is set
ScopeMerged(options) ==
  IF client.organizationId # Null /\ client.projectId # Null
  THEN [ k \in ((DOMAIN options) \ {"org_name", "project_name"}) \cup {"org_id", "project_id"}
           |-> IF k = "org_id" THEN client.organizationId
               ELSE IF k = "project_id" THEN client.projectId
               ELSE options[k] ]
  ELSE IF client.organizationName # Null /\ client.projectName # Null
  THEN [ k \in (DOMAIN options) \cup {"org_name", "project_name"}
           |-> IF k = "org_name" THEN client.organizationName
               ELSE IF k = "project_name" THEN client.projectName
               ELSE options[k] ]
  ELSE options

\* the string form the values of the model's options have in a query string
Stringified(v) ==
  CASE v = Str("alice") -> "alice"
    [] v = Num(5) -> "5"
    [] v = Num(42) -> "42"
    [] v = Num(7) -> "7"
    [] v = Filters -> "[object Object]"
    [] v.t = "string" -> v.s

StartsWith(s, t) == Len(t) <= Len(s) /\ SubSeq(s, 1, Len(t)) = t

\* C9: for the same options, getAll in v1 mode issues a bodiless GET to
\* {host}/v1/memories/?<query> whose query holds exactly the scope-merged
\* options that are neither null nor undefined, each in its string form, and in
\* v2 mode a POST to {host}/v2/memories/ with the scope-merged options as body.
C9_GetAllWireFormats ==
  \A c \in Active :
    calls[c].op = "getAll" =>
      LET options == calls[c].args["options"]
          req == calls[c].reqs[1]
          merged == ScopeMerged(Rest(options, {"api_version", "page", "page_size"}))
          sent == {k \in DOMAIN merged : merged[k] # Null /\ merged[k] # Undef}
      IN IF Get(options, "api_version") = Str("v2")
         THEN /\ req.method = "POST"
              /\ StartsWith(req.url, client.host \o "/v2/memories/")
              /\ req.url \in { client.host \o "/v2/memories/",
                               client.host \o "/v2/memories/?" \o req.frag }
              /\ req.body = [k \in {x \in DOMAIN merged : merged[x] # Undef} |-> merged[k]]
         ELSE /\ req.method = "GET"
              /\ req.body = NoBody
              /\ DOMAIN req.params = sent
              /\ \A k \in sent : req.params[k] = Stringified(merged[k])
              /\ req.url \in { client.host \o "/v1/memories/?" \o QueryString(req.params),
                               client.host \o "/v1/memories/?" \o QueryString(req.params)
                                 \o "&" \o req.frag }

C9_Witness ==
  \E c \in Active :
    /\ calls[c].op = "getAll"
    /\ calls[c].args["options"] = ("user_id" :> Undef) @@ ("limit" :> Num(5))
    /\ client.organizationId = Num(42) /\ client.projectId = Num(7)
    /\ calls[c].reqs[1].url = DefaultHost \o "/v1/memories/?limit=5&org_id=42&project_id=7"

\* C10: getAll appends page=<n>&page_size=<m> to the request URL exactly when
\* both page and page_size are supplied, whatever numbers they are.
C10_FragmentIffBothSupplied ==
  \A c \in Active :
    calls[c].op = "getAll" =>
      LET options == calls[c].args["options"]
          url == calls[c].reqs[1].url
          both == "page" \in DOMAIN options /\ "page_size" \in DOMAIN options
      IN /\ both =>
              EndsWith(url, "page=" \o NatStr(options["page"].n)
                            \o "&page_size=" \o NatStr(options["page_size"].n))
         /\ ~both => (~Includes(url, "page=") /\ ~Includes(url, "page_size="))


---------------------------------------------------------------------------
(* Local validation *)

\* no fetch has been made on behalf of the call
NoRequest(call) == call.reqs = <<>>

\* the call threw the plain Error with this message before any await
ThrewLocally(call, message) ==
  call.pc = "threw" /\ call.error = Error(message) /\ NoRequest(call)

\* the call has made exactly this one fetch
OneRequest(call, method, url) ==
  /\ Len(call.reqs) = 1
  /\ call.reqs[1].method = method
  /\ call.reqs[1].url = url

\* C11: update(id, data) with neither text nor metadata throws a local Error
\* and issues no request, for every id; with at least one of the two present
\* it issues exactly one PUT to /v1/memories/{id}/.
C11_UpdateNeedsTextOrMetadata ==
  \A c \in Active :
    calls[c].op = "update" =>
      LET data == calls[c].args["data"]
          neither == Get(data, "text") = Undef /\ Get(data, "metadata") = Undef
      IN IF neither
         THEN ThrewLocally(calls[c], "Either text or metadata must be provided for update.")
         ELSE OneRequest(calls[c], "PUT",
                         client.host \o "/v1/memories/"
                           \o calls[c].args["memoryId"] \o "/")

C11_Witness ==
  \E c \in Active :
    /\ calls[c].op = "update"
    /\ calls[c].args["data"] = EmptyBag
    /\ calls[c].args["memoryId"] = "mem_2"
    /\ ThrewLocally(calls[c], "Either text or metadata must be provided for update.")


\* the value is not set: absent, null or the empty string
Unset(v) == v \in {Undef, Null, Str("")}

\* C12: getProject and updateProject throw locally, with no request, exactly
\* when organizationId or projectId is not set on the client; createMemoryExport
\* exactly when filters or schema is missing; getMemoryExport exactly when
\* memory_export_id and filters are both missing; whatever else is supplied.
\* When the check passes the call issues exactly one request.
C12_RequiredIdentifiers ==
  \A c \in Active :
    LET call == calls[c]
        data == call.args["data"]
    IN /\ call.op = "getProject" =>
            IF Unset(client.organizationId) \/ Unset(client.projectId)
            THEN ThrewLocally(call,
                   "organizationId and projectId must be set to access project settings")
            ELSE Len(call.reqs) = 1 /\ call.reqs[1].method = "GET"
                 /\ call.reqs[1].path = projectPath
       /\ call.op = "updateProject" =>
            IF Unset(client.organizationId) \/ Unset(client.projectId)
            THEN ThrewLocally(call,
                   "organizationId and projectId must be set to update project settings")
            ELSE OneRequest(call, "PATCH", client.host \o projectPath)
       /\ call.op = "createMemoryExport" =>
            IF Unset(Get(data, "filters")) \/ Unset(Get(data, "schema"))
            THEN ThrewLocally(call, "Missing filters or schema")
            ELSE OneRequest(call, "POST", client.host \o "/v1/exports/")
       /\ call.op = "getMemoryExport" =>
            IF Unset(Get(data, "memory_export_id")) /\ Unset(Get(data, "filters"))
            THEN ThrewLocally(call, "Missing memory_export_id or filters")
            ELSE OneRequest(call, "POST", client.host \o "/v1/exports/get/")

C12_Witness ==
  \E c \in Active :
    /\ calls[c].op = "getProject"
    /\ calls[c].args["options"] = ("fields" :> <<"custom_instructions">>)
    /\ client.organizationId = Str("org_1") /\ client.projectId = Null
    /\ ThrewLocally(calls[c],
         "organizationId and projectId must be set to access project settings")


\* C13: a deleteUsers call without identifier whose entity listing came back
\* with zero results has thrown the local Error "No entities to delete" and
\* has issued no delete request.
C13_NothingToDelete ==
  \A c \in Bulk :
    (GotListing(calls[c]) /\ ListingOf(calls[c]) = <<>>) =>
      /\ calls[c].pc = "threw"
      /\ calls[c].error = Error("No entities to delete")
      /\ \A i \in 1..Len(calls[c].reqs) : calls[c].reqs[i].method # "DELETE"
      /\ calls[c].applied = <<>>

C13_Witness ==
  \E c \in Bulk :
    /\ calls[c].args["params"] = EmptyBag
    /\ GotListing(calls[c]) /\ ListingOf(calls[c]) = <<>>
    /\ calls[c].error = Error("No entities to delete")
    /\ Len(calls[c].reqs) = 1


\* the messages of the errors the methods raise on their own checks
ValidationMessages ==
  { "Either text or metadata must be provided for update.",
    "Missing filters or schema",
    "Missing memory_export_id or filters",
    "organizationId and projectId must be set to access project settings",
    "organizationId and projectId must be set to update project settings" }

\* the call failed with a local validation error carrying one of the messages
FailedValidation(call, messages) ==
  call.pc = "threw" /\ call.error.name = "Error" /\ call.error.message \in messages

\* C14 as stated: every local validation error (the API key at construction,
\* update, the exports, the project operations, and deleteUsers finding zero
\* entities) is raised before the failing call has issued any network request.
C14_ValidationBeforeAnyRequest ==
  /\ ctor.outcome = "threw" => NoRequestIssued
  /\ \A c \in Active :
       FailedValidation(calls[c], ValidationMessages \cup {"No entities to delete"})
         => NoRequest(calls[c])

\* C14 amended: the local validation errors of construction, update, the
\* exports and the project operations are raised before the failing call has
\* issued any request; deleteUsers raises "No entities to delete" after its
\* one listing request has been answered and before any delete request.
C14_ValidationBeforeRequests ==
  /\ ctor.outcome = "threw" => NoRequestIssued
  /\ \A c \in Active :
       /\ FailedValidation(calls[c], ValidationMessages) => NoRequest(calls[c])
       /\ FailedValidation(calls[c], {"No entities to delete"}) =>
            /\ Len(calls[c].reqs) = 1
            /\ calls[c].reqs[1].method = "GET"
            /\ calls[c].reqs[1].path = "/v1/entities/"
            /\ calls[c].reqs[1].state = "settled"

C14_Witness ==
  \E c \in Active :
    /\ calls[c].op = "deleteUsers"
    /\ calls[c].args["params"] = ("user_id" :> Str(""))
    /\ FailedValidation(calls[c], {"No entities to delete"})
    /\ calls[c].reqs[1].state = "settled"


---------------------------------------------------------------------------
(* Properties of ping, of the timeout and of the headers *)

\* the call's request i was answered with a success status and a body that parsed
Parsed(call, i) ==
  /\ i \in Settled(call)
  /\ call.reqs[i].response.kind = "http" /\ Ok(call.reqs[i].response)
  /\ call.reqs[i].response.json # Unparsable

\* the body is an object in the language's sense: typeof "object" and not null
IsObject(body) == body.t \in {"object", "array"}

Field(body, k) == IF body.t = "object" THEN Get(body.o, k) ELSE Undef

\* C15: ping returns normally only when the HTTP status is a success and the
\* body is an object whose status field is "ok"; a success response whose
\* status field is anything else makes it throw an APIError with status 401
\* whose message contains the response's message, or "API Key is invalid" when
\* there is none; a success response whose body is not an object makes it
\* throw an APIError with status 500.
C15_PingOutcomes ==
  \A c \in Active :
    calls[c].op = "ping" =>
      LET call == calls[c]
          body == call.reqs[1].response.json
      IN /\ call.pc = "returned" =>
              (Parsed(call, 1) /\ IsObject(body) /\ Field(body, "status") = Str("ok"))
         /\ Parsed(call, 1) =>
              IF ~IsObject(body)
              THEN /\ call.pc = "threw" /\ call.error.name = "APIError"
                   /\ call.error.status = 500
              ELSE IF Field(body, "status") # Str("ok")
              THEN /\ call.pc = "threw" /\ call.error.name = "APIError"
                   /\ call.error.status = 401
                   /\ Includes(call.error.message,
                               IF Field(body, "message") \in {Undef, Null}
                               THEN "API Key is invalid"
                               ELSE Field(body, "message").s)
              ELSE call.pc = "returned"

C15_Witness ==
  \E c \in Active :
    /\ calls[c].op = "ping"
    /\ Parsed(calls[c], 1)
    /\ calls[c].reqs[1].response.status = 200
    /\ calls[c].reqs[1].response.json =
         JObj(("status" :> Str("error")) @@ ("message" :> Str("Invalid API key")))
    /\ calls[c].error.name = "APIError" /\ calls[c].error.status = 401
    /\ Includes(calls[c].error.message, "Invalid")


\* the answer is that none came before the signal of AbortSignal.timeout fired
TimedOut(r) == r.kind = "reject" /\ r.name \in {"TimeoutError", "AbortError"}

\* C16: every request of every operation runs under the fixed timeout of
\* 60000 ms, whatever the caller supplied, and a call whose request got no
\* response within it has failed with a plain Error whose message is
\* "Request timeout after 60000ms for <url>" for that request's URL.
C16_TimeoutMessage ==
  \A c \in Active : \A i \in 1..Len(calls[c].reqs) :
    LET req == calls[c].reqs[i]
    IN /\ req.timeout = 60000
       /\ TimedOut(req.response) =>
            /\ calls[c].pc = "threw"
            /\ calls[c].error = Error("Request timeout after 60000ms for " \o req.url)


\* C17: every request of every operation, whatever its HTTP method, carries
\* the header Authorization: Token <apiKey>, with the apiKey given at
\* construction, and the header Content-Type: application/json.
C17_HeadersOnEveryRequest ==
  \A c \in Active : \A i \in 1..Len(calls[c].reqs) :
    LET headers == calls[c].reqs[i].headers
    IN /\ DOMAIN headers = {"Authorization", "Content-Type"}
       /\ headers["Authorization"] = "Token " \o ctor.options["apiKey"].s
       /\ headers["Content-Type"] = "application/json"

C17_Witness ==
  \E c \in Active :
    /\ calls[c].op = "deleteUsers"
    /\ Len(calls[c].reqs) = 3
    /\ calls[c].reqs[1].method = "GET" /\ calls[c].reqs[3].method = "DELETE"
    /\ calls[c].reqs[3].body = NoBody
    /\ calls[c].reqs[3].headers["Authorization"] = "Token m0-key"


---------------------------------------------------------------------------
(* Properties of the errors and of the results *)

RaisedAPIError(call) == call.pc = "threw" /\ call.error.name = "APIError"

\* the last request the call issued
LastRequest(call) == call.reqs[Len(call.reqs)]

C19_ReturnsParsedBody ==
  \A c \in Active :
    LET call == calls[c]
    IN /\ (call.op \in SingleRequestOps /\ Parsed(call, 1)) =>
            /\ call.pc = "returned"
            /\ call.result = call.reqs[1].response.json
            /\ call.error = NoError
       /\ call.op \in {"add", "search"} =>
            /\ Len(call.reqs) = 1 /\ call.reqs[1].method = "POST"
            /\ call.pc = "threw" => Failed(call.reqs[1]) \/ ~Parsed(call, 1)

C19_Witness ==
  \E c \in Active :
    /\ calls[c].op = "add"
    /\ calls[c].args["messages"] = JArr(<<>>)
    /\ Parsed(calls[c], 1)
    /\ calls[c].reqs[1].response.json = JArr(<<>>)
    /\ calls[c].pc = "returned" /\ calls[c].result = JArr(<<>>)


\* the identifiers the caller supplied, in the order deleteUsers looks at them
Identifiers == <<"user_id", "agent_id", "app_id", "run_id">>

Supplied(params) == {i \in 1..Len(Identifiers) : Get(params, Identifiers[i]).t = "string"}

\* the entity the first supplied identifier names
Named(params) ==
  LET i == CHOOSE j \in Supplied(params) : \A k \in Supplied(params) : j <= k
  IN Entity(SubSeq(Identifiers[i], 1, Len(Identifiers[i]) - 3), params[Identifiers[i]].s)

\* C20: deleteUsers called with one of user_id, agent_id, app_id or run_id
\* supplied, whatever string it is, issues exactly one DELETE, to
\* /v2/entities/{type}/{id}/ of that entity, issues no listing request, deletes
\* no other entity and returns "Entity deleted successfully."; the path that
\* lists and deletes all entities is taken only when none of the four is supplied.
C20_TargetedDeleteOnly ==
  \A c \in Active :
    calls[c].op = "deleteUsers" =>
      LET call == calls[c]
          params == call.args["params"]
      IN IF Supplied(params) # {}
         THEN /\ Len(call.reqs) = 1
              /\ call.reqs[1].method = "DELETE"
              /\ call.reqs[1].path = "/v2/entities/" \o Named(params).type \o "/"
                                       \o Named(params).name \o "/"
              /\ call.applied \in {<<>>, <<Named(params)>>}
              /\ call.pc = "returned" =>
                   /\ call.applied = <<Named(params)>>
                   /\ call.result = JObj(("message" :> Str("Entity deleted successfully.")))
         ELSE c \in Bulk


---------------------------------------------------------------------------
(* One caller using the scoped operations while all callers ping concurrently *)

ConcClientOptions ==
  { ("apiKey" :> Str("m0-key")) @@ o :
      o \in { EmptyBag, Ids, Names,
              ("organizationId" :> Str("")) @@ ("projectId" :> Str("proj_1")) } }

ConcPingBodies ==
  { JObj(("status" :> Str("ok")) @@ ("org_id" :> Str(o)) @@ ("project_id" :> Str(p))) :
      o \in {"", "org_8", "org_9"}, p \in {"", "proj_9"} }
  \cup { JObj(("status" :> Str("ok")) @@ ("org_id" :> Str("org_8"))
              @@ ("project_id" :> Str("proj_8"))),
         JObj(("status" :> Str("error")) @@ ("org_id" :> Str("org_7"))
              @@ ("project_id" :> Str("proj_7"))) }

ConcOptions == { Alice, ("org_id" :> Str("caller_org")) @@ Alice }

ConcResponses(call) ==
  { [kind |-> "http", status |-> 500, statusText |-> "Internal Server Error",
     text |-> "", json |-> Unparsable] }
  \cup
  { Success(b) : b \in IF call.op = "ping" THEN ConcPingBodies
                       ELSE IF AwaitsListing(call)
                       THEN { JObj(("results" :> JArr(l))) : l \in [1..1 -> EntityObjs] }
                       ELSE { JArr(<<>>) } }

InitConc ==
  /\ ctor \in [ options : ConcClientOptions, outcome : {"pending"},
                error : {NoError}, warnings : {{}} ]
  /\ client = NoClient
  /\ calls = [c \in Callers |-> IdleCall]
  /\ served = {}

NextConc ==
  \/ Construct
  \/ \E c \in Callers : ping(c)
  \/ \E o \in ConcOptions : add(Caller, JArr(<<Message>>), o)
  \/ \E o \in ConcOptions : getAll(Caller, o)
  \/ \E o \in ConcOptions : search(Caller, Str("coffee"), o)
  \/ \E o \in ConcOptions : deleteAll(Caller, o)
  \/ users(Caller)
  \/ deleteUsers(Caller, EmptyBag)
  \/ getProject(Caller, EmptyBag)
  \/ \E p \in Prompts : updateProject(Caller, p)
  \/ \E c \in Callers : \E r \in ConcResponses(calls[c]) : pingSettles(c, r)
  \/ \E r \in ConcResponses(calls[Caller]) : deleteUsersListed(Caller, r)
  \/ \E r \in ConcResponses(calls[Caller]) : deleteUsersDeleted(Caller, r)
  \/ \E r \in ConcResponses(calls[Caller]) : fetchSettles(Caller, r)
  \/ \E c \in Callers : Return(c)

SpecConc == InitConc /\ [][NextConc]_vars

---------------------------------------------------------------------------
(* Properties of the learned ids under concurrent calls *)

\* the ping of caller c completes successfully in this step, answered with body
PingLearns(c, body) ==
  /\ PingSucceeds(c)
  /\ calls'[c].reqs[1].response.json = body

\* C21: ping sets organizationId (resp. projectId) only if it is unset when the
\* response is processed: an id given at construction or learned by an earlier
\* ping is never overwritten by a later ping's response, under every
\* interleaving of concurrent pings; the first learned value wins.
C21_FirstLearnedIdWins ==
  [][client.st = "ok" =>
       /\ ~Unset(client.organizationId) => client'.organizationId = client.organizationId
       /\ ~Unset(client.projectId) => client'.projectId = client.projectId
       /\ client'.organizationId # client.organizationId =>
            \E c \in Callers :
              PingLearns(c, calls'[c].reqs[1].response.json)
              /\ client'.organizationId = Field(calls'[c].reqs[1].response.json, "org_id")
       /\ client'.projectId # client.projectId =>
            \E c \in Callers :
              PingLearns(c, calls'[c].reqs[1].response.json)
              /\ client'.projectId = Field(calls'[c].reqs[1].response.json, "project_id")
  ]_vars

C21_Witness ==
  \E c, d \in Callers :
    /\ c # d
    /\ calls[c].op = "ping" /\ calls[c].pc = "returned"
    /\ calls[d].op = "ping" /\ calls[d].pc = "returned"
    /\ Field(calls[c].reqs[1].response.json, "org_id") = Str("org_9")
    /\ Field(calls[d].reqs[1].response.json, "org_id") = Str("org_8")
    /\ Get(ctor.options, "organizationId") = Undef
    /\ client.organizationId = Str("org_9")


\* C22: within one deleteUsers call on the delete-everything path, the listing
\* request and every delete request carry the same org/project scope
\* parameters, also when a ping learns the ids while the call is in flight.
C22_OneScopePerBulkCall ==
  \A c \in Bulk : \A i \in 2..Len(calls[c].reqs) :
    /\ calls[c].reqs[i].params = calls[c].reqs[1].params
    /\ Includes(calls[c].reqs[i].url, "org_id=") = Includes(calls[c].reqs[1].url, "org_id=")


\* the client was constructed without organizationId and projectId
NoIdsGiven ==
  Get(ctor.options, "organizationId") = Undef /\ Get(ctor.options, "projectId") = Undef

BothIds(f) == ~Unset(f.organizationId) /\ ~Unset(f.projectId)

\* the value the request carries under key k, in its JSON body or in its query
Carried(req, k) ==
  IF req.body # NoBody THEN Get(req.body, k)
  ELSE IF k \in DOMAIN req.params THEN Str(req.params[k]) ELSE Undef

\* the requests caller c issues in this step
Issued(c) == {i \in 1..Len(calls'[c].reqs) : i > Len(calls[c].reqs)}

\* caller c starts a call in this step
Starts(c) == calls[c].pc = "idle" /\ calls'[c].pc # "idle"

\* what calls started and requests issued in this step carry: the learned ids
\* once the client holds both, and before that nothing but the caller's own
\* options, with getProject and updateProject failing locally
ScopeFollowsLearning ==
  \A c \in Callers :
    /\ (calls'[c].op \in ScopeOps) =>
         \A i \in Issued(c) :
           IF BothIds(client)
           THEN /\ Carried(calls'[c].reqs[i], "org_id") = client.organizationId
                /\ Carried(calls'[c].reqs[i], "project_id") = client.projectId
           ELSE /\ Carried(calls'[c].reqs[i], "org_id")
                     = Get(Get(calls'[c].args, "options"), "org_id")
                /\ Carried(calls'[c].reqs[i], "project_id") = Undef
    /\ (Starts(c) /\ calls'[c].op \in {"getProject", "updateProject"}) =>
         IF BothIds(client)
         THEN Len(calls'[c].reqs) = 1 /\ calls'[c].pc = "fetching"
              /\ calls'[c].reqs[1].path = projectPath
         ELSE calls'[c].pc = "threw" /\ NoRequest(calls'[c])

\* C23 as stated: on a client constructed without organizationId and
\* projectId, getProject/updateProject fail locally and the requests of add,
\* getAll, search, deleteAll, users and deleteUsers carry no org_id/project_id
\* until a ping succeeds with a response carrying org_id and project_id; every
\* call started after that ping carries exactly those ids, and
\* getProject/updateProject then issue their request.
C23_ScopeLearnedFromOnePing ==
  [][(client.st = "ok" /\ NoIdsGiven) =>
       /\ ScopeFollowsLearning
       /\ (~BothIds(client) /\ BothIds(client')) =>
            \E c \in Callers :
              /\ PingLearns(c, calls'[c].reqs[1].response.json)
              /\ client'.organizationId = Field(calls'[c].reqs[1].response.json, "org_id")
              /\ client'.projectId = Field(calls'[c].reqs[1].response.json, "project_id")
  ]_vars

\* C23 amended: ... until successful pings have supplied an org_id and a
\* project_id, in one response or in several; from then on every call started
\* carries exactly the ids the client learned, each the first one a successful
\* ping supplied, and getProject/updateProject issue their request.
C23_ScopeLearnedFromPings ==
  [][(client.st = "ok" /\ NoIdsGiven) =>
       /\ ScopeFollowsLearning
       /\ BothIds(client) => client' = client
       /\ client'.organizationId # client.organizationId =>
            \E c \in Callers :
              /\ PingLearns(c, calls'[c].reqs[1].response.json)
              /\ client'.organizationId = Field(calls'[c].reqs[1].response.json, "org_id")
       /\ client'.projectId # client.projectId =>
            \E c \in Callers :
              /\ PingLearns(c, calls'[c].reqs[1].response.json)
              /\ client'.projectId = Field(calls'[c].reqs[1].response.json, "project_id")
  ]_vars

C23_Witness ==
  \E c \in Callers :
    /\ NoIdsGiven
    /\ client.organizationId = Str("org_9") /\ client.projectId = Str("proj_9")
    /\ calls[c].op = "getProject" /\ calls[c].pc = "fetching"
    /\ calls[c].reqs[1].path = "/api/v1/orgs/organizations/org_9/projects/proj_9/"


---------------------------------------------------------------------------
(* Properties of the single operations *)

\* C24: the deprecated deleteUser({entity_id, entity_type}) issues the same
\* single-entity delete request (same HTTP method, endpoint path and scope
\* parameters) as deleteUsers issues for that entity, with entity_type
\* defaulting to "user" when omitted.
C24_DeleteUserDelegates ==
  \A c \in Active :
    calls[c].op = "deleteUser" =>
      LET data == calls[c].args["data"]
          type == IF "entity_type" \in DOMAIN data THEN data["entity_type"].s ELSE "user"
          same == entityDelete(Entity(type, JSString(data["entity_id"])), scopeQuery)
      IN /\ Len(calls[c].reqs) = 1
         /\ calls[c].reqs[1].method = same.method
         /\ calls[c].reqs[1].path = same.path
         /\ calls[c].reqs[1].params = same.params


CarriedAs(req, k, v) ==
  IF req.body # NoBody THEN Get(req.body, k) = v
  ELSE Carried(req, k) = (IF v \in {Undef, Null} THEN Undef ELSE Str(JSString(v)))

\* what the caller put under key k in the options of its call
Own(call, k) == Get(Get(call.args, "options"), k)

\* C26: when organizationId and projectId are not both set but organizationName
\* and projectName are, the requests of add, getAll, search, deleteAll, users
\* and deleteUsers carry org_name/project_name with the configured values,
\* overriding the caller's; a pair of which only one member is configured adds
\* nothing to the request.
C26_NamePairInjected ==
  \A c \in Active : \A i \in 1..Len(calls[c].reqs) :
    calls[c].op \in ScopeOps =>
      LET req == calls[c].reqs[i]
          idsBoth == client.organizationId # Null /\ client.projectId # Null
          namesBoth == client.organizationName # Null /\ client.projectName # Null
      IN /\ (~idsBoth /\ namesBoth) =>
              /\ CarriedAs(req, "org_name", client.organizationName)
              /\ CarriedAs(req, "project_name", client.projectName)
         /\ (~idsBoth /\ ~namesBoth) =>
              /\ CarriedAs(req, "org_name", Own(calls[c], "org_name"))
              /\ CarriedAs(req, "project_name", Own(calls[c], "project_name"))
         /\ ~idsBoth =>
              /\ CarriedAs(req, "org_id", Own(calls[c], "org_id"))
              /\ CarriedAs(req, "project_id", Own(calls[c], "project_id"))

C26_Witness ==
  \E c \in Active :
    /\ calls[c].op = "deleteAll"
    /\ Own(calls[c], "org_name") = Str("theirs")
    /\ client.organizationId = Str("org_1") /\ client.projectId = Null
    /\ client.organizationName = Str("acme") /\ client.projectName = Str("demo")
    /\ calls[c].reqs[1].params["org_name"] = "acme"
    /\ calls[c].reqs[1].params["project_name"] = "demo"


\* the project a webhook call is aimed at: the override of the call, if the
\* method takes one and it is given, else the client's projectId
WebhookProject(call) ==
  IF call.op = "getWebhooks"
  THEN Coalesce(Get(call.args["data"], "projectId"), client.projectId)
  ELSE client.projectId

\* C27: getWebhooks targets the projectId override of the call when one is
\* given and otherwise the client's configured or learned projectId,
\* createWebhook targets the client's projectId, and when no project id is
\* available neither method issues a request to a project path.
C27_WebhooksNeedProject ==
  \A c \in Active :
    calls[c].op \in {"getWebhooks", "createWebhook"} =>
      IF Unset(WebhookProject(calls[c]))
      THEN \A i \in 1..Len(calls[c].reqs) :
             ~StartsWith(calls[c].reqs[i].path, "/api/v1/webhooks/projects/")
      ELSE OneRequest(calls[c],
                      IF calls[c].op = "getWebhooks" THEN "GET" ELSE "POST",
                      client.host \o "/api/v1/webhooks/projects/"
                        \o JSString(WebhookProject(calls[c])) \o "/")


\* the identifiers given with a value, by their place in the order
\* user_id, agent_id, app_id, run_id
Given(params) == {i \in 1..Len(Identifiers) : Truthy(Get(params, Identifiers[i]))}

FirstGiven(params) ==
  LET i == CHOOSE j \in Given(params) : \A k \in Given(params) : j <= k
  IN Entity(SubSeq(Identifiers[i], 1, Len(Identifiers[i]) - 3), params[Identifiers[i]].s)

\* C28: given more than one of user_id, agent_id, app_id, run_id, deleteUsers
\* deletes exactly one entity, the first given in that fixed order, issues no
\* request for the other identifiers and still returns
\* "Entity deleted successfully.".
C28_FirstIdentifierOnly ==
  \A c \in Active :
    (calls[c].op = "deleteUsers" /\ Cardinality(Given(calls[c].args["params"])) > 1) =>
      LET call == calls[c]
          first == FirstGiven(call.args["params"])
      IN /\ OneRequest(call, "DELETE",
                       client.host \o "/v2/entities/" \o first.type \o "/" \o first.name
                         \o "/?" \o QueryString(call.reqs[1].params))
         /\ call.applied \in {<<>>, <<first>>}
         /\ call.pc = "returned" =>
              /\ call.applied = <<first>>
              /\ call.result = JObj(("message" :> Str("Entity deleted successfully.")))
         /\ call.pc = "threw" => Failed(call.reqs[1]) \/ ~Parsed(call, 1)

C28_Witness ==
  \E c \in Active :
    /\ calls[c].op = "deleteUsers"
    /\ calls[c].args["params"] = ("agent_id" :> Str("bot")) @@ ("run_id" :> Str("run1"))
    /\ calls[c].pc = "returned"
    /\ calls[c].applied = <<Entity("agent", "bot")>>
    /\ Len(calls[c].reqs) = 1


\* C29: getAll never places page, page_size or api_version among the options
\* it sends, the v1 query parameters or the v2 JSON body; so when only one of
\* page and page_size is supplied its value appears nowhere in the request.
C29_PagingKeysNotForwarded ==
  \A c \in Active :
    calls[c].op = "getAll" =>
      LET options == calls[c].args["options"]
          req == calls[c].reqs[1]
          sent == IF req.body # NoBody THEN DOMAIN req.body ELSE DOMAIN req.params
          onlyOne == ("page" \in DOMAIN options) # ("page_size" \in DOMAIN options)
      IN /\ sent \cap {"page", "page_size", "api_version"} = {}
         /\ req.url = client.host \o req.path
                        \o (IF req.body = NoBody THEN "?" \o QueryString(req.params)
                            ELSE IF req.frag # "" THEN "?" ELSE "")
                        \o (IF req.frag # "" /\ req.body = NoBody THEN "&" ELSE "")
                        \o req.frag
         /\ onlyOne => (req.frag = "" /\ ~Includes(req.url, "page"))

C29_Witness ==
  \E c \in Active :
    /\ calls[c].op = "getAll"
    /\ calls[c].args["options"] = ("page" :> Num(2)) @@ Alice
    /\ calls[c].reqs[1].url = DefaultHost \o "/v1/memories/?user_id=alice"


\* id?.toString() ?? fallback, as the payload should show it
IdOrElse(id, fallback) == IF id = Null THEN fallback ELSE Str(JSString(id))

\* C30: createMemoryExport and getMemoryExport always set the payload's org_id
\* and project_id from the client's current configuration, overriding any in
\* the caller's data: the string form of the id when it is set, and null
\* (createMemoryExport) or the empty string (getMemoryExport) when it is not;
\* every other field of the data is sent as given.
C30_ExportScopeFromClient ==
  \A c \in Active : \A i \in 1..Len(calls[c].reqs) :
    calls[c].op \in {"createMemoryExport", "getMemoryExport"} =>
      LET body == calls[c].reqs[i].body
          data == calls[c].args["data"]
          fallback == IF calls[c].op = "createMemoryExport" THEN Null ELSE Str("")
      IN /\ Get(body, "org_id") = IdOrElse(client.organizationId, fallback)
         /\ Get(body, "project_id") = IdOrElse(client.projectId, fallback)
         /\ \A k \in (DOMAIN data) \ {"org_id", "project_id"} : Get(body, k) = data[k]
         /\ DOMAIN body \subseteq (DOMAIN data) \cup {"org_id", "project_id"}

C30_Witness ==
  \E c \in Active :
    /\ calls[c].op = "getMemoryExport"
    /\ Get(calls[c].args["data"], "org_id") = Str("caller_org")
    /\ client.organizationId = Num(42) /\ client.projectId = Num(7)
    /\ Len(calls[c].reqs) = 1
    /\ calls[c].reqs[1].body["org_id"] = Str("42")
    /\ calls[c].reqs[1].body["project_id"] = Str("7")

=============================================================================
